---- MODULE Spec2Model ----
(***************************************************************************)
(* The ingestion flow of pipelines/prefect_flows/spotify_ingestion.py:     *)
(* search_playlists, fetch_playlist_tracks, save_to_duckdb and the flow    *)
(* playlist_collect, run against a Spotify catalog whose calls may fail    *)
(* and a DuckDB store whose writes may fail.                               *)
(*                                                                         *)
(* Strings that the code only copies are TLA+ strings.  Strings that the   *)
(* code computes on (names given to clean_string, release dates) are       *)
(* sequences of one-character strings.  Python's None and a missing dict   *)
(* key are the sentinels below.                                            *)
(***************************************************************************)
EXTENDS Integers, Sequences, FiniteSets, TLC

VARIABLES
    world,            \* what the catalog holds: [K, dirty, lone, many] (fixed by Init)
    credsOk,          \* SPOTIFY_CLIENT_ID / SPOTIFY_CLIENT_SECRET are set
    today,            \* date.today(), as a day number
    run,              \* number of the current invocation of playlist_collect
    pc,               \* position of the flow
    qi,               \* index (1-based) of the query being searched
    all_playlists,    \* playlist_collect: all_playlists
    unique_playlists, \* playlist_collect: unique_playlists
    pi,               \* playlist_collect: i of enumerate(unique_playlists, 1)
    all_tracks,       \* playlist_collect: all_tracks (the working buffer)
    ft_tracks,        \* fetch_playlist_tracks: all_tracks (the task's local list)
    offset,           \* fetch_playlist_tracks: offset
    attempt,          \* Prefect: attempt number of the task run in progress
    failsLeft,        \* catalog outage: how many of the next catalog calls fail
    faulted,          \* a fault (a catalog outage, a failing store write) has occurred
    db,               \* the store: [playlists, tracks, playlist_tracks], rows in insertion order
    log,              \* observations of the run, read only by the properties
    cs_arg,           \* clean_string called on its own: the argument s
    cs_ret,           \* clean_string called on its own: the value last returned
    cs_calls          \* clean_string called on its own: number of calls made

flowVars == <<world, credsOk, today, run, pc, qi, all_playlists, unique_playlists, pi,
              all_tracks, ft_tracks, offset, attempt, failsLeft, faulted, db, log>>

cleanVars == <<cs_arg, cs_ret, cs_calls>>

vars == <<flowVars, cleanVars>>

(***************************************************************************)
(* Bounds of the model.                                                    *)
(***************************************************************************)
NumQueries == 3      \* how many of the flow's 18 queries a run issues
MaxRuns == 2         \* invocations of playlist_collect in one behaviour
MaxOutageLen == 2    \* longest outage, in consecutive failing calls
MaxLen == 3          \* longest argument of clean_string called on its own
MaxCleanCalls == 2   \* clean_string applied to its own result, this many calls in all
ManyQueries == 5     \* queries a run issues against the catalog of many playlists

(***************************************************************************)
(* Program constants.                                                      *)
(***************************************************************************)
BATCH_SIZE == 500
SEARCH_LIMIT == 50
TRACK_LIMIT == 100
MIN_DURATION_MS == 30000
MAX_DURATION_MS == 600000
PLAYLIST_CAP == 200
TASK_RETRIES == 3
RETRY_DELAY_SECONDS == 10
API_RATE_LIMIT_DELAY_MS == 150   \* API_RATE_LIMIT_DELAY = 0.15 s
\* config/data_strategy.py
MAX_RETRIES == 5
RETRY_BACKOFF_FACTOR == 2

\* Python's None and a key that the dict does not hold.
NoneS == "<None>"
AbsentS == "<absent>"
NoneI == -1
AbsentI == -2

Unknown == <<"U", "n", "k", "n", "o", "w", "n">>

Min(a, b) == IF a < b THEN a ELSE b
Max(a, b) == IF a > b THEN a ELSE b

(***************************************************************************)
(* clean_string.  Characters: the classes of Python's re for str patterns. *)
(***************************************************************************)
UpperChars == {"A", "B", "H", "I", "T", "U", "W"}
LowerChars == {"a", "b", "h", "i", "t", "u", "w", "n", "k", "o", "r", "g", "y"}
DigitChars == {"0", "1", "2", "9"}
SpaceChars == {" ", "\t", "\n"}
UnderscoreChar == "_"

\* str.lower() on one character
LowerOf(c) ==
    CASE c = "A" -> "a" [] c = "B" -> "b" [] c = "H" -> "h" [] c = "I" -> "i"
      [] c = "T" -> "t" [] c = "U" -> "u" [] c = "W" -> "w" [] OTHER -> c

\* \w of a str pattern: letters, digits and the underscore
IsWordChar(c) == c \in UpperChars \cup LowerChars \cup DigitChars \cup {UnderscoreChar}
\* \s
IsSpaceChar(c) == c \in SpaceChars

Lower(s) == [k \in 1..Len(s) |-> LowerOf(s[k])]

RECURSIVE RemoveFirstNonWordSpace(_)
RemoveFirstNonWordSpace(s) ==
    IF s = <<>> THEN <<>>
    ELSE IF IsWordChar(Head(s)) \/ IsSpaceChar(Head(s))
         THEN <<Head(s)>> \o RemoveFirstNonWordSpace(Tail(s))
         ELSE Tail(s)

RECURSIVE RemoveNonWordSpace(_)
\* re.sub(r'[^\w\s]', '', s)
RemoveNonWordSpace(s) ==
    IF s = <<>> THEN <<>>
    ELSE IF IsWordChar(Head(s)) \/ IsSpaceChar(Head(s))
         THEN <<Head(s)>> \o RemoveNonWordSpace(Tail(s))
         ELSE RemoveNonWordSpace(Tail(s))

RECURSIVE CollapseSpaces(_)
\* re.sub(r'\s+', ' ', s)
CollapseSpaces(s) ==
    IF s = <<>> THEN <<>>
    ELSE IF IsSpaceChar(Head(s))
         THEN IF Len(s) > 1 /\ IsSpaceChar(s[2])
              THEN CollapseSpaces(Tail(s))
              ELSE <<" ">> \o CollapseSpaces(Tail(s))
         ELSE <<Head(s)>> \o CollapseSpaces(Tail(s))

RECURSIVE StripLeft(_)
StripLeft(s) ==
    IF s # <<>> /\ IsSpaceChar(Head(s)) THEN StripLeft(Tail(s)) ELSE s

RECURSIVE StripRight(_)
StripRight(s) ==
    IF s # <<>> /\ IsSpaceChar(s[Len(s)]) THEN StripRight(SubSeq(s, 1, Len(s) - 1)) ELSE s

\* str.strip()
Strip(s) == StripRight(StripLeft(s))

\* None, where the code handles a name that may be None
NoneSeq == <<NoneS>>
\* a key that the dict does not hold, where the value would be a name
AbsentSeq == <<AbsentS>>

clean_string(s) ==
    IF s = <<>> \/ s = NoneSeq THEN <<>>
    ELSE Strip(CollapseSpaces(RemoveNonWordSpace(Lower(s))))

(***************************************************************************)
(* The catalog (the Spotify Web API behind sp.search and                   *)
(* sp.playlist_tracks).  A raw playlist entry and a raw track item are     *)
(* records of the JSON fields the code reads.                              *)
(***************************************************************************)
AllQueries == <<"workout", "gym", "fitness", "running", "cardio",
                "HIIT", "strength", "weights", "yoga", "cycling",
                "exercise", "training", "powerlifting", "crossfit",
                "spinning", "pilates", "aerobics", "zumba">>

queries == SubSeq(AllQueries, 1, Min(NumQueries, Len(AllQueries)))

\* sizes of playlist p1 that a world may have
KSizes == {0, 1, 100, 101, 500}
\* dirty: the catalog returns a playlist whose owner is null and a track
\* without a name; lone: the catalog holds playlist p1 and no other; many: the
\* catalog returns, for each query, SEARCH_LIMIT playlists that no other query
\* returns, each of K items
Worlds ==
    {[K |-> k, dirty |-> FALSE, lone |-> FALSE, many |-> FALSE] : k \in KSizes}
      \cup {[K |-> 1, dirty |-> TRUE, lone |-> FALSE, many |-> FALSE]}
      \cup {[K |-> 0, dirty |-> FALSE, lone |-> TRUE, many |-> FALSE]}

ManyWorld == [K |-> 3, dirty |-> FALSE, lone |-> FALSE, many |-> TRUE]

\* the queries a run issues: the first of the flow's list
QueriesOf(w) ==
    IF w.many THEN SubSeq(AllQueries, 1, Min(ManyQueries, Len(AllQueries))) ELSE queries

\* position of a query in the flow's list
QueryIndex(q) == CHOOSE i \in 1..Len(AllQueries) : AllQueries[i] = q

RawPlaylist(id, name, owner, followers, total) ==
    [isNone |-> FALSE, id |-> id, name |-> name, owner |-> owner,
     followers |-> followers, total |-> total]

NullPlaylist == [isNone |-> TRUE, id |-> NoneS, name |-> AbsentSeq, owner |-> AbsentSeq,
                 followers |-> AbsentI, total |-> AbsentI]

\* the j-th playlist that the catalog of many playlists returns for q
ManyPlaylist(q, j) ==
    RawPlaylist("m" \o ToString(SEARCH_LIMIT * (QueryIndex(q) - 1) + j),
                <<"r", "u", "n">>, <<"b", "o", "b">>, 5, 3)

\* the items of the search response for q in world w
SearchItems(w, q) ==
    CASE w.many -> [j \in 1..SEARCH_LIMIT |-> ManyPlaylist(q, j)]
      [] w.lone ->
           IF q = "workout"
           THEN << RawPlaylist("p1", <<"H", "I", "I", "T">>, <<"a", "n", "n">>, 10, w.K) >>
           ELSE << >>
      [] q = "workout" ->
           << RawPlaylist("p1", <<"H", "I", "I", "T">>, <<"a", "n", "n">>, 10, w.K),
              NullPlaylist,
              RawPlaylist("p2", <<"r", "u", "n">>, AbsentSeq, AbsentI, 7) >>
      [] q = "gym" ->
           << RawPlaylist(AbsentS, <<"g", "y", "m">>, <<"b", "o", "b">>, 1, 1),
              RawPlaylist("p2", <<"r", "u", "n">>, <<"b", "o", "b">>, 20, 7),
              RawPlaylist("p3", <<"g", "y", "m">>,
                          IF w.dirty THEN NoneSeq ELSE <<"b", "o", "b">>, 3, 2) >>
      [] q = "fitness" ->
           << RawPlaylist("p1", <<"H", "I", "I", "T">>, <<"a", "n", "n">>, 11, w.K),
              RawPlaylist("", <<"a">>, <<"a", "n", "n">>, 0, 0) >>
      [] OTHER -> << >>

\* sp.search(q=query, type='playlist', limit=limit): at most limit items
SpotifySearch(w, q, limit) == SubSeq(SearchItems(w, q), 1, Min(limit, Len(SearchItems(w, q))))

RawTrack(id, name, duration, artist, release_date, popularity) ==
    [itemNone |-> FALSE, trackNone |-> FALSE, id |-> id, name |-> name,
     duration |-> duration, artist |-> artist, albumNone |-> FALSE,
     album_name |-> <<"a", "b">>, release_date |-> release_date,
     popularity |-> popularity, explicit |-> FALSE]

NullTrack == [RawTrack(NoneS, AbsentSeq, AbsentI, AbsentSeq, <<>>, AbsentI) EXCEPT !.trackNone = TRUE]

TrackPool == <<"t1", "t2", "t3">>

Date2019 == <<"2", "0", "1", "9", "-", "0", "1">>

\* the k-th item (1-based) of playlist p1: a valid track; an id comes back
\* with another popularity and duration further down the list
P1Item(k) ==
    RawTrack(TrackPool[(k % 3) + 1], <<"H", "I", "!">>, MIN_DURATION_MS + 1000 * (k % 2),
             <<"A", " ", "b">>, Date2019, 50 + (k % 2))

P2Clean ==
    << NullTrack,
       RawTrack(AbsentS, <<"a">>, 200000, <<"a">>, Date2019, 1),
       RawTrack("t4", <<"a">>, MIN_DURATION_MS - 1, <<"a">>, Date2019, 1),
       RawTrack("t5", <<"a", "_", "b">>, MIN_DURATION_MS, AbsentSeq, <<"1", "9">>, 2),
       RawTrack("t6", <<"W", "\t", " ", "b">>, MAX_DURATION_MS, <<"b">>, <<"a", "b", "h", "i">>, AbsentI),
       RawTrack("t7", <<"a">>, MAX_DURATION_MS + 1, <<"a">>, Date2019, 4),
       RawTrack("t1", <<"H", "I", "!">>, 240000, <<"A", " ", "b">>, Date2019, 99) >>

\* a track that has an id and a valid duration, and no 'name' key
NamelessTrack == RawTrack("t8", AbsentSeq, 200000, <<"a">>, Date2019, 5)

P2Items(w) ==
    IF w.dirty THEN SubSeq(P2Clean, 1, 4) \o <<NamelessTrack>> \o SubSeq(P2Clean, 5, 7)
    ELSE P2Clean

P3Items ==
    << RawTrack("t2", <<"H", "I", "!">>, 180000, <<"A", " ", "b">>, <<>>, 70),
       RawTrack("t9", <<"a">>, AbsentI, <<"a">>, Date2019, 5) >>

\* number of items of a playlist
PlaylistSize(w, pid) ==
    CASE w.many -> w.K
      [] pid = "p1" -> w.K
      [] pid = "p2" -> Len(P2Items(w))
      [] pid = "p3" -> Len(P3Items)
      [] OTHER -> 0

\* the k-th item (1-based) of a playlist
PlaylistItem(w, pid, k) ==
    CASE w.many -> P1Item(k)
      [] pid = "p1" -> P1Item(k)
      [] pid = "p2" -> P2Items(w)[k]
      [] OTHER -> P3Items[k]

\* sp.playlist_tracks(playlist_id, limit=limit, offset=offset): results['items']
SpotifyPlaylistTracks(w, pid, limit, off) ==
    [k \in 1..Max(0, Min(limit, PlaylistSize(w, pid) - off)) |-> PlaylistItem(w, pid, off + k)]

(***************************************************************************)
(* search_playlists: the body of the try block and its except handler.     *)
(***************************************************************************)
\* `if not p or not p.get('id'): continue`
PlaylistSkipped(p) == p.isNone \/ p.id \in {NoneS, AbsentS, ""}

\* p.get('owner', {}).get(...), p.get('followers', {}).get(...) and
\* p.get('tracks', {}).get(...) raise AttributeError when the value is None
PlaylistRaises(p) ==
    ~PlaylistSkipped(p) /\ (p.owner = NoneSeq \/ p.followers = NoneI \/ p.total = NoneI)

PlaylistRecord(p, query) ==
    [playlist_id |-> p.id,
     playlist_name |-> IF p.name = AbsentSeq THEN Unknown ELSE p.name,
     owner |-> IF p.owner = AbsentSeq THEN Unknown ELSE p.owner,
     follower_count |-> IF p.followers = AbsentI THEN 0 ELSE p.followers,
     total_tracks |-> IF p.total = AbsentI THEN 0 ELSE p.total,
     category |-> query]

\* A for loop is unfolded by halves: the loop over a list is the loop over
\* its first half followed by the loop over its second half.
Half(s) == Len(s) \div 2
FirstHalf(s) == SubSeq(s, 1, Half(s))
SecondHalf(s) == SubSeq(s, Half(s) + 1, Len(s))

\* two stretches of a loop that may raise, one after the other
ThenLoop(a, b) ==
    IF a.raised THEN a ELSE [raised |-> b.raised, value |-> a.value \o b.value]

RECURSIVE SearchLoop(_, _)
\* the for loop over the items (lines 44-55): [raised, value]
SearchLoop(items, query) ==
    IF items = <<>> THEN [raised |-> FALSE, value |-> <<>>]
    ELSE IF Len(items) = 1
    THEN IF PlaylistSkipped(items[1]) THEN [raised |-> FALSE, value |-> <<>>]
         ELSE IF PlaylistRaises(items[1]) THEN [raised |-> TRUE, value |-> <<>>]
         ELSE [raised |-> FALSE, value |-> <<PlaylistRecord(items[1], query)>>]
    ELSE ThenLoop(SearchLoop(FirstHalf(items), query), SearchLoop(SecondHalf(items), query))

SearchExceptRaises == [raised |-> TRUE, value |-> <<>>]
\* `except Exception as e: print(...); return []`
SearchExcept == [raised |-> FALSE, value |-> <<>>]

\* the try statement: [raised, value], raised when the task function raises
SearchTry(w, query, limit, apiOk) ==
    IF ~apiOk THEN SearchExcept
    ELSE LET r == SearchLoop(SpotifySearch(w, query, limit), query)
         IN  IF r.raised THEN SearchExcept ELSE r

(***************************************************************************)
(* fetch_playlist_tracks: the body of the for loop over one page.          *)
(***************************************************************************)
DigitVal(c) == CASE c = "0" -> 0 [] c = "1" -> 1 [] c = "2" -> 2 [] OTHER -> 9

RECURSIVE DigitsValue(_, _)
DigitsValue(s, acc) ==
    IF s = <<>> THEN acc
    ELSE IF Head(s) = UnderscoreChar THEN DigitsValue(Tail(s), acc)
    ELSE DigitsValue(Tail(s), 10 * acc + DigitVal(Head(s)))

\* the digits of an int() literal: digits, single underscores between them
IsDigits(s) ==
    /\ s # <<>>
    /\ s[1] \in DigitChars /\ s[Len(s)] \in DigitChars
    /\ \A k \in 1..Len(s) : s[k] \in DigitChars \cup {UnderscoreChar}
    /\ \A k \in 1..(Len(s) - 1) : ~(s[k] = UnderscoreChar /\ s[k + 1] = UnderscoreChar)

\* int(s): [ok, value]; ok is FALSE where int raises ValueError
ParseInt(s) ==
    LET t == Strip(s)
        neg == t # <<>> /\ Head(t) = "-"
        body == IF neg THEN Tail(t) ELSE t
    IN  IF IsDigits(body)
        THEN [ok |-> TRUE, value |-> IF neg THEN 0 - DigitsValue(body, 0) ELSE DigitsValue(body, 0)]
        ELSE [ok |-> FALSE, value |-> NoneI]

\* release_year of lines 94-101; NoneI is None
ReleaseYear(release_date) ==
    IF release_date # <<>> /\ release_date # NoneSeq /\ Len(release_date) >= 4
    THEN LET r == ParseInt(SubSeq(release_date, 1, 4))
         IN  IF r.ok THEN r.value ELSE NoneI
    ELSE NoneI

\* duration = track.get('duration_ms', 0)
DurationOf(item) == IF item.duration = AbsentI THEN 0 ELSE item.duration

DurationRejectedBelowOnly(duration) == duration < MIN_DURATION_MS
\* `if duration < 30000 or duration > 600000: continue`
DurationRejected(duration) == duration < MIN_DURATION_MS \/ duration > MAX_DURATION_MS

\* what the loop body does with one item: "skip" (continue), "raise", "accept"
ItemOutcome(item) ==
    IF item.itemNone THEN "raise"                                  \* item.get on None
    ELSE IF item.trackNone \/ item.id \in {NoneS, AbsentS, ""} THEN "skip"
    ELSE IF item.duration = NoneI THEN "raise"                     \* None < 30000
    ELSE IF DurationRejected(DurationOf(item)) THEN "skip"
    ELSE IF item.albumNone THEN "raise"                            \* album.get on None
    ELSE IF item.name = AbsentSeq THEN "raise"                     \* track['name']
    ELSE "accept"

ArtistName(item) == IF item.artist = AbsentSeq THEN Unknown ELSE item.artist

TrackRecord(item, playlist_id) ==
    [track_id |-> item.id,
     track_name |-> item.name,
     track_name_clean |-> clean_string(item.name),
     artist_name |-> ArtistName(item),
     artist_name_clean |-> clean_string(ArtistName(item)),
     album_name |-> item.album_name,
     release_year |-> ReleaseYear(item.release_date),
     duration_ms |-> DurationOf(item),
     popularity |-> IF item.popularity = AbsentI THEN 0 ELSE item.popularity,
     explicit |-> item.explicit,
     playlist_id |-> playlist_id]

RECURSIVE PageLoop(_, _)
\* the for loop over the items of one page: [raised, value], value the records
\* appended before the loop ended or raised
PageLoop(items, playlist_id) ==
    IF items = <<>> THEN [raised |-> FALSE, value |-> <<>>]
    ELSE IF Len(items) = 1
    THEN LET o == ItemOutcome(items[1])
         IN  [raised |-> o = "raise",
              value |-> IF o = "accept" THEN <<TrackRecord(items[1], playlist_id)>>
                        ELSE <<>>]
    ELSE ThenLoop(PageLoop(FirstHalf(items), playlist_id),
                  PageLoop(SecondHalf(items), playlist_id))

LastPageOrFull(n, limit) == n <= limit
LastPageNever(n, limit) == FALSE
\* `if len(items) < limit: break`
LastPage(n, limit) == n < limit

FetchExceptDiscards(tracks) == <<>>
\* `except Exception as e: print(...); break`, then `return all_tracks`:
\* what the task returns after an exception, given the list built so far
FetchExcept(tracks) == tracks

(***************************************************************************)
(* save_to_duckdb.  A table is the sequence of its rows in insertion       *)
(* order.  The key of each table is declared by sql/create_schema.sql.     *)
(***************************************************************************)
EmptyDb == [playlists |-> <<>>, tracks |-> <<>>, playlist_tracks |-> <<>>]

PlaylistKey(row) == row.playlist_id
TrackKey(row) == row.track_id
PlaylistTrackKey(row) == <<row.playlist_id, row.track_id, row.snapshot_date>>

\* the key of a row of the table named name
KeyOf(name, row) ==
    CASE name = "playlists" -> PlaylistKey(row)
      [] name = "tracks" -> TrackKey(row)
      [] OTHER -> PlaylistTrackKey(row)

\* the parameter tuple of one playlist (lines 141-142)
PlaylistRow(p, date) ==
    [playlist_id |-> p.playlist_id, snapshot_date |-> date,
     playlist_name |-> p.playlist_name, owner |-> p.owner,
     follower_count |-> p.follower_count, total_tracks |-> p.total_tracks,
     category |-> p.category, data_source |-> "fast_collection"]

\* the parameter tuple of one track (lines 151-154)
TrackRow(t) ==
    [track_id |-> t.track_id, track_name |-> t.track_name,
     track_name_clean |-> t.track_name_clean, artist_name |-> t.artist_name,
     artist_name_clean |-> t.artist_name_clean, album_name |-> t.album_name,
     release_year |-> t.release_year, duration_ms |-> t.duration_ms,
     popularity |-> t.popularity, explicit |-> t.explicit]

\* the parameter tuple of one association (line 161)
PlaylistTrackRow(t, date) ==
    [playlist_id |-> t.playlist_id, track_id |-> t.track_id, snapshot_date |-> date]

\* the rows of `rows` whose key no row of `table` (the table named name) has
NewRows(name, table, rows) ==
    SelectSeq(rows, LAMBDA r : \A k \in 1..Len(table) : KeyOf(name, table[k]) # KeyOf(name, r))

\* INSERT OR REPLACE of rows with distinct keys: a row that is there is
\* overwritten in place, the others are appended
InsertOrReplace(name, table, rows) ==
    [k \in 1..Len(table) |->
        IF \E j \in 1..Len(rows) : KeyOf(name, rows[j]) = KeyOf(name, table[k])
        THEN rows[CHOOSE j \in 1..Len(rows) : KeyOf(name, rows[j]) = KeyOf(name, table[k])]
        ELSE table[k]]
    \o NewRows(name, table, rows)

\* INSERT OR IGNORE of rows with distinct keys: a row whose key is there is
\* dropped, the others are appended
InsertOrIgnore(name, table, rows) == table \o NewRows(name, table, rows)

\* INSERT without a conflict clause
InsertPlain(table, rows) == table \o rows

\* INSERT OR REPLACE INTO playlists (lines 136-140)
InsertPlaylists(table, rows) == InsertOrReplace("playlists", table, rows)

InsertTracksReplacing(table, rows) == InsertOrReplace("tracks", table, rows)
\* INSERT OR IGNORE INTO tracks (lines 146-150)
InsertTracks(table, rows) == InsertOrIgnore("tracks", table, rows)

InsertPlaylistTracksPlain(table, rows) == InsertPlain(table, rows)
\* INSERT OR IGNORE INTO playlist_tracks (lines 157-160)
InsertPlaylistTracks(table, rows) == InsertOrIgnore("playlist_tracks", table, rows)

\* executemany runs its statement once per parameter tuple, in order.  What
\* the tuples of a list do to a table is what its first half does, then its
\* second half: each half is run on an empty table and the outcome is
\* inserted, by the same statement, into what is there.
RECURSIVE PlaylistsBatch(_, _)
PlaylistsBatch(playlists, date) ==
    IF playlists = <<>> THEN <<>>
    ELSE IF Len(playlists) = 1 THEN <<PlaylistRow(playlists[1], date)>>
    ELSE InsertPlaylists(PlaylistsBatch(FirstHalf(playlists), date),
                         PlaylistsBatch(SecondHalf(playlists), date))

\* conn.executemany of lines 136-142
ExecPlaylists(table, playlists, date) ==
    InsertPlaylists(table, PlaylistsBatch(playlists, date))

RECURSIVE TracksBatch(_)
TracksBatch(tracks) ==
    IF tracks = <<>> THEN <<>>
    ELSE IF Len(tracks) = 1 THEN <<TrackRow(tracks[1])>>
    ELSE InsertTracks(TracksBatch(FirstHalf(tracks)), TracksBatch(SecondHalf(tracks)))

\* conn.executemany of lines 146-154
ExecTracks(table, tracks) == InsertTracks(table, TracksBatch(tracks))

RECURSIVE PlaylistTracksBatch(_, _)
PlaylistTracksBatch(tracks, date) ==
    IF tracks = <<>> THEN <<>>
    ELSE IF Len(tracks) = 1 THEN <<PlaylistTrackRow(tracks[1], date)>>
    ELSE InsertPlaylistTracks(PlaylistTracksBatch(FirstHalf(tracks), date),
                              PlaylistTracksBatch(SecondHalf(tracks), date))

\* conn.executemany of lines 157-161
ExecPlaylistTracks(table, tracks, date) ==
    InsertPlaylistTracks(table, PlaylistTracksBatch(tracks, date))

\* Where a call of save_to_duckdb may raise, and how far the failing
\* executemany got: at its first parameter tuple or at its last.
SaveFaults == {"none", "connect", "playlists", "tracks", "playlist_tracks"}
SaveCuts == {"first", "last"}

SaveFaultPossible(fault, cut, playlists, tracks) ==
    /\ fault = "playlists" => playlists # <<>>
    /\ fault \in {"tracks", "playlist_tracks"} => tracks # <<>>
    /\ fault \in {"none", "connect"} => cut = "first"

\* the parameter tuples an executemany executed before it raised
Executed(rows, cut) ==
    IF cut = "first" THEN <<>> ELSE SubSeq(rows, 1, Len(rows) - 1)

\* steps of the statements of one call (0: none, 3: all three)
StatementsBegun(fault) ==
    CASE fault = "connect" -> 0 [] fault = "playlists" -> 1
      [] fault = "tracks" -> 2 [] OTHER -> 3

\* save_to_duckdb with its statements in another order: associations first,
\* playlists second, tracks last
SaveAssociationsFirst(store, playlists, tracks, date, fault, cut) ==
    LET pt == IF fault = "playlist_tracks" THEN Executed(tracks, cut) ELSE tracks
        pl == IF fault = "playlists" THEN Executed(playlists, cut) ELSE playlists
        tr == IF fault = "tracks" THEN Executed(tracks, cut) ELSE tracks
    IN  [playlist_tracks |-> IF fault # "connect"
                             THEN ExecPlaylistTracks(store.playlist_tracks, pt, date)
                             ELSE store.playlist_tracks,
         playlists |-> IF fault \in {"none", "playlists", "tracks"}
                       THEN ExecPlaylists(store.playlists, pl, date)
                       ELSE store.playlists,
         tracks |-> IF fault \in {"none", "tracks"}
                    THEN ExecTracks(store.tracks, tr)
                    ELSE store.tracks]

\* The store after save_to_duckdb(playlists, tracks) on `date`, the call
\* raising at `fault`.  No statement opens a transaction, so DuckDB commits
\* every execution as it completes; conn.commit() then has nothing to commit.
save_to_duckdb(store, playlists, tracks, date, fault, cut) ==
    LET n == StatementsBegun(fault)
        pl == IF fault = "playlists" THEN Executed(playlists, cut) ELSE playlists
        tr == IF fault = "tracks" THEN Executed(tracks, cut) ELSE tracks
        pt == IF fault = "playlist_tracks" THEN Executed(tracks, cut) ELSE tracks
    IN  [playlists |-> IF n >= 1 THEN ExecPlaylists(store.playlists, pl, date)
                       ELSE store.playlists,
         tracks |-> IF n >= 2 THEN ExecTracks(store.tracks, tr) ELSE store.tracks,
         playlist_tracks |-> IF n >= 3
                             THEN ExecPlaylistTracks(store.playlist_tracks, pt, date)
                             ELSE store.playlist_tracks]

(***************************************************************************)
(* playlist_collect: the deduplication of lines 196-197.                   *)
(***************************************************************************)
\* a dict updated with the items of another: a key keeps the position of
\* its first insertion and takes the value of its last
DictUpdateKeepsFirst(a, b) ==
    a \o SelectSeq(b, LAMBDA p : \A k \in 1..Len(a) : a[k].playlist_id # p.playlist_id)

DictUpdate(a, b) ==
    [k \in 1..Len(a) |->
        IF \E j \in 1..Len(b) : b[j].playlist_id = a[k].playlist_id
        THEN b[CHOOSE j \in 1..Len(b) : b[j].playlist_id = a[k].playlist_id]
        ELSE a[k]]
    \o SelectSeq(b, LAMBDA p : \A k \in 1..Len(a) : a[k].playlist_id # p.playlist_id)

RECURSIVE DictOf(_)
\* list({p['playlist_id']: p for p in playlists}.values())
DictOf(playlists) ==
    IF playlists = <<>> THEN <<>>
    ELSE IF Len(playlists) = 1 THEN playlists
    ELSE DictUpdate(DictOf(FirstHalf(playlists)), DictOf(SecondHalf(playlists)))

\* lines 196-197
Deduplicate(playlists) ==
    LET d == DictOf(playlists)
    IN  SubSeq(d, 1, Min(PLAYLIST_CAP, Len(d)))

(***************************************************************************)
(* Delays and catalog calls, in the order in which a task issues them.     *)
(***************************************************************************)
SleepEvent(ms) == [kind |-> "sleep", ms |-> ms]
CallEvent == [kind |-> "call", ms |-> 0]

\* search_playlists: time.sleep(API_RATE_LIMIT_DELAY) of line 38, then
\* sp.search of line 41
SearchEvents == <<SleepEvent(API_RATE_LIMIT_DELAY_MS), CallEvent>>

FetchEventsNoDelay == <<CallEvent>>
\* fetch_playlist_tracks, one iteration of the while loop: time.sleep of
\* line 71, then sp.playlist_tracks of line 74
FetchEvents == <<SleepEvent(API_RATE_LIMIT_DELAY_MS), CallEvent>>

\* No catalog call has been issued yet.
NoTiming == [sinceCall |-> 0, lastWait |-> NoneI, calls |-> 0]

RECURSIVE RunEvents(_, _)
\* sinceCall: ms slept since the latest catalog call (or since the run began);
\* lastWait: ms slept between the catalog call before the latest and the latest;
\* calls: catalog calls issued
RunEvents(events, t) ==
    IF events = <<>> THEN t
    ELSE RunEvents(Tail(events),
                   IF Head(events).kind = "sleep"
                   THEN [t EXCEPT !.sinceCall = @ + Head(events).ms]
                   ELSE [sinceCall |-> 0, lastWait |-> t.sinceCall, calls |-> t.calls + 1])

(***************************************************************************)
(* The flow playlist_collect and its tasks, as a state machine.            *)
(*                                                                         *)
(* pc: "search"    about to run search_playlists(queries[qi])              *)
(*     "dedup"     lines 195-197                                           *)
(*     "page"      fetch_playlist_tracks, at the top of its while loop     *)
(*     "extend"    the task returned: lines 207-210                        *)
(*     "flush"     the save_to_duckdb of line 211                          *)
(*     "remaining" lines 222-224                                           *)
(*     "done"      the flow returned; "failed": the flow raised            *)
(***************************************************************************)
NoSave == [n |-> 0, pre |-> EmptyDb, full |-> EmptyDb, fault |-> "none", size |-> 0]
NoPrev == [run |-> 0, clean |-> FALSE, date |-> 0, db |-> EmptyDb]

\* log of a run that has just begun
NewLog(prev) ==
    [searches |-> <<>>,      \* per query searched: [faults, failed, attempts, result]
     timing |-> NoTiming,    \* delays and catalog calls: [sinceCall, lastWait, calls]
     returned |-> <<>>,      \* the records the fetch tasks returned, in order
     saved |-> <<>>,         \* the records given to save_to_duckdb, call after call
     delays |-> <<>>,        \* seconds Prefect waited before each retry of the task run in progress
     pages |-> 0,            \* page calls of the fetch task in progress
     pageFaults |-> 0,       \* failsLeft when the last page call was made
     fetchRaised |-> FALSE,  \* the fetch task in progress caught an exception
     accepted |-> 0,         \* records the fetch task had built when it caught it
     fetched |-> 0,          \* fetch tasks that have returned
     clean |-> TRUE,         \* no catalog call and no store write of this run has failed
     firstDate |-> 0,        \* date of this run's first save
     cause |-> "none",       \* why the flow raised
     save |-> NoSave,        \* the last call of save_to_duckdb
     prev |-> prev]          \* the previous run, at its end

Init ==
    /\ world \in Worlds
    /\ credsOk \in BOOLEAN
    /\ today = 1
    /\ run = 1
    /\ pc = "search"
    /\ qi = 1
    /\ all_playlists = <<>>
    /\ unique_playlists = <<>>
    /\ pi = 0
    /\ all_tracks = <<>>
    /\ ft_tracks = <<>>
    /\ offset = 0
    /\ attempt = 1
    /\ failsLeft = 0
    /\ faulted = FALSE
    /\ db = EmptyDb
    /\ log = NewLog(NoPrev)
    /\ cs_arg = <<>>
    /\ cs_ret = <<>>
    /\ cs_calls = 0

\* A catalog outage begins: the next n catalog calls fail.  A behaviour has
\* one fault at most: one outage, or one failing call of save_to_duckdb.
Outage ==
    /\ UNCHANGED cleanVars
    /\ pc \in {"search", "page"}
    /\ credsOk
    /\ ~faulted
    /\ \E n \in 1..MaxOutageLen : failsLeft' = n
    /\ faulted' = TRUE
    /\ UNCHANGED <<world, credsOk, today, run, pc, qi, all_playlists, unique_playlists,
                   pi, all_tracks, ft_tracks, offset, attempt, db, log>>

\* One attempt of the task search_playlists(queries[qi], limit=50), and what
\* Prefect and the flow do with its outcome (lines 34-60, 190-193).
SearchPlaylists ==
    /\ UNCHANGED cleanVars
    /\ pc = "search"
    /\ LET apiOk == failsLeft = 0
           r == IF credsOk THEN SearchTry(world, QueriesOf(world)[qi], SEARCH_LIMIT, apiOk)
                ELSE [raised |-> TRUE, value |-> <<>>]   \* get_spotify_client raises
           events == IF credsOk THEN SearchEvents ELSE <<>>   \* line 37 raises before line 38
           entry == [faults |-> failsLeft,
                     failed |-> ~apiOk,
                     attempts |-> attempt,
                     result |-> r.value]
       IN  /\ failsLeft' = IF credsOk /\ ~apiOk THEN failsLeft - 1 ELSE failsLeft
           /\ IF r.raised
              THEN IF attempt <= TASK_RETRIES
                   THEN \* Prefect waits retry_delay_seconds and runs the task again
                        /\ attempt' = attempt + 1
                        /\ UNCHANGED <<pc, qi, all_playlists>>
                        /\ log' = [log EXCEPT !.timing = RunEvents(events, @), !.clean = FALSE,
                                              !.delays = Append(@, RETRY_DELAY_SECONDS)]
                   ELSE \* the task run fails and the flow raises
                        /\ pc' = "failed"
                        /\ UNCHANGED <<attempt, qi, all_playlists>>
                        /\ log' = [log EXCEPT !.timing = RunEvents(events, @), !.clean = FALSE,
                                              !.cause = IF credsOk THEN "search"
                                                        ELSE "credentials"]
              ELSE /\ all_playlists' = all_playlists \o r.value
                   /\ attempt' = 1
                   /\ qi' = qi + 1
                   /\ pc' = IF qi = Len(QueriesOf(world)) THEN "dedup" ELSE "search"
                   /\ log' = [log EXCEPT !.timing = RunEvents(events, @), !.searches = Append(@, entry),
                                         !.delays = <<>>,
                                         !.clean = @ /\ apiOk]
    /\ UNCHANGED <<world, credsOk, today, run, unique_playlists, pi, all_tracks,
                   ft_tracks, offset, faulted, db>>

\* lines 195-197, and the first iteration of the for loop of line 203
DeduplicatePlaylists ==
    /\ UNCHANGED cleanVars
    /\ pc = "dedup"
    /\ unique_playlists' = Deduplicate(all_playlists)
    /\ IF unique_playlists' = <<>>
       THEN pc' = "remaining" /\ pi' = 0
       ELSE pc' = "page" /\ pi' = 1
    /\ ft_tracks' = <<>>
    /\ offset' = 0
    /\ log' = [log EXCEPT !.pages = 0, !.fetchRaised = FALSE, !.accepted = 0]
    /\ UNCHANGED <<world, credsOk, today, run, qi, all_playlists, all_tracks, attempt,
                   failsLeft, faulted, db>>

\* One iteration of the while loop of fetch_playlist_tracks (lines 70-124):
\* the delay, the page call, the loop over its items, the test for more.
FetchPage ==
    /\ UNCHANGED cleanVars
    /\ pc = "page"
    /\ LET playlist_id == unique_playlists[pi].playlist_id
           apiOk == failsLeft = 0
           items == SpotifyPlaylistTracks(world, playlist_id, TRACK_LIMIT, offset)
           r == PageLoop(items, playlist_id)
       IN  /\ failsLeft' = IF apiOk THEN 0 ELSE failsLeft - 1
           /\ IF ~apiOk
              THEN /\ ft_tracks' = FetchExcept(ft_tracks)
                   /\ pc' = "extend"
                   /\ UNCHANGED offset
                   /\ log' = [log EXCEPT !.timing = RunEvents(FetchEvents, @), !.pages = @ + 1, !.pageFaults = failsLeft,
                                         !.fetchRaised = TRUE, !.clean = FALSE,
                                         !.accepted = Len(ft_tracks)]
              ELSE IF items = <<>>
              THEN /\ pc' = "extend"
                   /\ UNCHANGED <<ft_tracks, offset>>
                   /\ log' = [log EXCEPT !.timing = RunEvents(FetchEvents, @), !.pages = @ + 1, !.pageFaults = 0]
              ELSE IF r.raised
              THEN /\ ft_tracks' = FetchExcept(ft_tracks \o r.value)
                   /\ pc' = "extend"
                   /\ UNCHANGED offset
                   /\ log' = [log EXCEPT !.timing = RunEvents(FetchEvents, @), !.pages = @ + 1, !.pageFaults = 0,
                                         !.fetchRaised = TRUE,
                                         !.accepted = Len(ft_tracks \o r.value)]
              ELSE /\ ft_tracks' = ft_tracks \o r.value
                   /\ offset' = offset + TRACK_LIMIT
                   /\ pc' = IF LastPage(Len(items), TRACK_LIMIT) THEN "extend" ELSE "page"
                   /\ log' = [log EXCEPT !.timing = RunEvents(FetchEvents, @), !.pages = @ + 1, !.pageFaults = 0]
    /\ UNCHANGED <<world, credsOk, today, run, qi, all_playlists, unique_playlists, pi,
                   all_tracks, attempt, faulted, db>>

\* the next iteration of the for loop of line 203, or its end
NextPlaylist ==
    /\ IF pi < Len(unique_playlists)
       THEN pi' = pi + 1 /\ pc' = "page"
       ELSE pi' = pi /\ pc' = "remaining"
    /\ ft_tracks' = <<>>
    /\ offset' = 0

\* The task returned (line 126): lines 206-210.
ExtendBuffer ==
    /\ UNCHANGED cleanVars
    /\ pc = "extend"
    /\ all_tracks' = all_tracks \o ft_tracks
    /\ IF Len(all_tracks') >= BATCH_SIZE
       THEN pc' = "flush" /\ UNCHANGED <<pi, ft_tracks, offset>>
       ELSE NextPlaylist
    /\ log' = [log EXCEPT !.fetched = @ + 1,
                          !.returned = @ \o ft_tracks,
                          !.pages = IF pc' = "page" THEN 0 ELSE @,
                          !.fetchRaised = IF pc' = "page" THEN FALSE ELSE @,
                          !.accepted = IF pc' = "page" THEN 0 ELSE @]
    /\ UNCHANGED <<world, credsOk, today, run, qi, all_playlists, unique_playlists,
                   attempt, failsLeft, faulted, db>>

\* what one call save_to_duckdb(all_playlists, all_tracks) leaves behind
SaveCall(fault, cut) ==
    /\ SaveFaultPossible(fault, cut, all_playlists, all_tracks)
    /\ fault # "none" => ~faulted
    /\ faulted' = (faulted \/ fault # "none")
    /\ db' = save_to_duckdb(db, all_playlists, all_tracks, today, fault, cut)
    /\ log' = [log EXCEPT
                 !.save = [n |-> @.n + 1, pre |-> db,
                           full |-> save_to_duckdb(db, all_playlists, all_tracks, today,
                                                   "none", "first"),
                           fault |-> fault,
                           size |-> Len(all_tracks)],
                 !.saved = @ \o all_tracks,
                 !.firstDate = IF @ = 0 THEN today ELSE @,
                 !.clean = @ /\ fault = "none",
                 !.cause = IF fault = "none" THEN @ ELSE "save",
                 !.pages = IF fault = "none" /\ pc = "flush" /\ pi < Len(unique_playlists)
                           THEN 0 ELSE @,
                 !.fetchRaised = IF fault = "none" /\ pc = "flush"
                                    /\ pi < Len(unique_playlists)
                                 THEN FALSE ELSE @,
                 !.accepted = IF fault = "none" /\ pc = "flush"
                                 /\ pi < Len(unique_playlists)
                              THEN 0 ELSE @]

\* save_to_duckdb has `try ... finally` and no except clause (lines 133,
\* 168-169): what a statement raises leaves the task, and the flow, which calls
\* the task outside any try, raises with it
SaveRaised(fault) == fault # "none"

BufferKept(buffer) == buffer
\* `all_tracks = []` of line 212
BufferCleared(buffer) == <<>>

\* lines 210-212: the buffer has reached BATCH_SIZE
FlushBatch ==
    /\ UNCHANGED cleanVars
    /\ pc = "flush"
    /\ \E fault \in SaveFaults, cut \in SaveCuts :
         /\ SaveCall(fault, cut)
         /\ IF ~SaveRaised(fault)
            THEN all_tracks' = BufferCleared(all_tracks) /\ NextPlaylist
            ELSE pc' = "failed" /\ UNCHANGED <<all_tracks, pi, ft_tracks, offset>>
    /\ UNCHANGED <<world, credsOk, today, run, qi, all_playlists, unique_playlists,
                   attempt, failsLeft>>

\* lines 222-243: the remainder is saved, the final counts are read
SaveRemaining ==
    /\ UNCHANGED cleanVars
    /\ pc = "remaining"
    /\ IF all_tracks # <<>>
       THEN \E fault \in SaveFaults, cut \in SaveCuts :
              /\ SaveCall(fault, cut)
              /\ pc' = IF ~SaveRaised(fault) THEN "done" ELSE "failed"
       ELSE pc' = "done" /\ UNCHANGED <<db, log, faulted>>
    /\ UNCHANGED <<world, credsOk, today, run, qi, all_playlists, unique_playlists, pi,
                   all_tracks, ft_tracks, offset, attempt, failsLeft>>

\* playlist_collect is run again, on the same day or on a later one
StartRun ==
    /\ UNCHANGED cleanVars
    /\ pc \in {"done", "failed"}
    /\ run < MaxRuns
    /\ run' = run + 1
    /\ today' \in {today, today + 1}
    /\ pc' = "search"
    /\ qi' = 1
    /\ all_playlists' = <<>>
    /\ unique_playlists' = <<>>
    /\ pi' = 0
    /\ all_tracks' = <<>>
    /\ ft_tracks' = <<>>
    /\ offset' = 0
    /\ attempt' = 1
    /\ log' = NewLog([run |-> run, clean |-> log.clean /\ pc = "done",
                      date |-> log.firstDate, db |-> db])
    /\ UNCHANGED <<world, credsOk, failsLeft, faulted, db>>

Next ==
    \/ Outage
    \/ SearchPlaylists
    \/ DeduplicatePlaylists
    \/ FetchPage
    \/ ExtendBuffer
    \/ FlushBatch
    \/ SaveRemaining
    \/ StartRun

Spec == Init /\ [][Next]_vars

(***************************************************************************)
(* One run of the flow against the catalog of many playlists, in which no  *)
(* catalog call fails.                                                     *)
(***************************************************************************)
InitCap ==
    /\ world = ManyWorld
    /\ credsOk = TRUE
    /\ today = 1
    /\ run = 1
    /\ pc = "search"
    /\ qi = 1
    /\ all_playlists = <<>>
    /\ unique_playlists = <<>>
    /\ pi = 0
    /\ all_tracks = <<>>
    /\ ft_tracks = <<>>
    /\ offset = 0
    /\ attempt = 1
    /\ failsLeft = 0
    /\ faulted = FALSE
    /\ db = EmptyDb
    /\ log = NewLog(NoPrev)
    /\ cs_arg = <<>>
    /\ cs_ret = <<>>
    /\ cs_calls = 0

NextCap ==
    \/ SearchPlaylists
    \/ DeduplicatePlaylists
    \/ FetchPage
    \/ ExtendBuffer
    \/ FlushBatch
    \/ SaveRemaining

SpecCap == InitCap /\ [][NextCap]_vars

(***************************************************************************)
(* clean_string called on its own: on every string of at most MaxLen       *)
(* characters over CleanAlphabet and on None, and then on its own result.  *)
(***************************************************************************)
\* an upper-case and a lower-case letter, a digit, two whitespace characters,
\* a punctuation mark and the underscore
CleanAlphabet == {"A", "b", "1", " ", "\t", "!", "_"}

RECURSIVE StringsUpTo(_)
StringsUpTo(n) ==
    IF n = 0 THEN {<<>>}
    ELSE LET shorter == StringsUpTo(n - 1)
         IN  shorter \cup {Append(t, c) : t \in shorter, c \in CleanAlphabet}

CleanInputs == StringsUpTo(MaxLen) \cup {NoneSeq}

InitClean ==
    /\ world = [K |-> 0, dirty |-> FALSE, lone |-> TRUE, many |-> FALSE]
    /\ credsOk = TRUE
    /\ today = 1
    /\ run = 1
    /\ pc = "done"
    /\ qi = 1
    /\ all_playlists = <<>>
    /\ unique_playlists = <<>>
    /\ pi = 0
    /\ all_tracks = <<>>
    /\ ft_tracks = <<>>
    /\ offset = 0
    /\ attempt = 1
    /\ failsLeft = 0
    /\ faulted = FALSE
    /\ db = EmptyDb
    /\ log = NewLog(NoPrev)
    /\ cs_arg \in CleanInputs
    /\ cs_ret = <<>>
    /\ cs_calls = 0

\* clean_string(s), then clean_string of what it returned
CleanCall ==
    /\ cs_calls < MaxCleanCalls
    /\ cs_ret' = clean_string(IF cs_calls = 0 THEN cs_arg ELSE cs_ret)
    /\ cs_calls' = cs_calls + 1
    /\ UNCHANGED <<flowVars, cs_arg>>

NextClean == CleanCall

SpecClean == InitClean /\ [][NextClean]_vars

(***************************************************************************)
(* Properties.                                                             *)
(***************************************************************************)
\* the flow is past the deduplication of line 197
PastDedup == pc \in {"page", "extend", "flush", "remaining", "done"}

\* the playlist whose tracks are being fetched
CurrentPlaylist == unique_playlists[pi].playlist_id

\* the items of playlist pid from the first to the n-th
ItemsUpTo(pid, n) == [k \in 1..n |-> PlaylistItem(world, pid, k)]

InRange(d) == 30000 <= d /\ d <= 600000

\* C1: every track record in the task's list, in the flow's buffer (what
\* save_to_duckdb is given) and in the tracks table has a duration within
\* [30000, 600000], and every playlist_tracks row is that of an item of the
\* playlist whose duration is within the range.
C1_DurationFilter ==
    /\ \A k \in 1..Len(ft_tracks) : InRange(ft_tracks[k].duration_ms)
    /\ \A k \in 1..Len(all_tracks) : InRange(all_tracks[k].duration_ms)
    /\ \A k \in 1..Len(db.tracks) : InRange(db.tracks[k].duration_ms)
    /\ \A k \in 1..Len(db.playlist_tracks) :
         LET row == db.playlist_tracks[k]
         IN  \E j \in 1..PlaylistSize(world, row.playlist_id) :
               LET item == PlaylistItem(world, row.playlist_id, j)
               IN  item.id = row.track_id /\ InRange(item.duration)

\* C1 witness: the tracks at both ends of the range are stored, their
\* playlist p2 (which also holds tracks of 29999 ms and 600001 ms) being saved.
C1_Witness ==
    /\ \E k \in 1..Len(db.tracks) : db.tracks[k].duration_ms = 30000
    /\ \E k \in 1..Len(db.tracks) : db.tracks[k].duration_ms = 600000
    /\ \E k \in 1..Len(db.playlist_tracks) : db.playlist_tracks[k].playlist_id = "p2"

\* C2 as stated: a fetch in which nothing raised made ceil(K/100) page calls
\* for a playlist of K >= 1 items, and one call returning [] for K = 0.
C2_CeilCalls ==
    (pc = "extend" /\ ~log.fetchRaised) =>
        LET K == PlaylistSize(world, CurrentPlaylist)
        IN  IF K = 0 THEN log.pages = 1 /\ ft_tracks = <<>>
            ELSE log.pages = (K + 99) \div 100

\* C2 amended: a fetch in which nothing raised made floor(K/100) + 1 page
\* calls, at offsets 0, 100, ..., and for K = 0 returns []; while it runs it
\* has made offset/100 calls and offset <= K.
C2_PageCalls ==
    /\ (pc = "extend" /\ ~log.fetchRaised) =>
          LET K == PlaylistSize(world, CurrentPlaylist)
          IN  /\ log.pages = (K \div 100) + 1
              /\ K = 0 => ft_tracks = <<>>
    /\ pc = "page" =>
          /\ log.pages * 100 = offset
          /\ offset <= PlaylistSize(world, CurrentPlaylist)

\* C2 witness: a playlist of exactly 100 items took two page calls.
C2_Witness ==
    /\ pc = "extend" /\ ~log.fetchRaised
    /\ PlaylistSize(world, CurrentPlaylist) = 100
    /\ log.pages = 2

\* what search_playlists returns for query k when the call succeeds
SuccessfulSearch(k) == SearchTry(world, queries[k], 50, TRUE).value

\* C3: a search whose call fails twice and would succeed the third time
\* returns the playlists of the successful response, and a fetch whose page
\* call fails twice and would succeed the third time is not cut short.
C3_RetryUntilSuccess ==
    /\ \A k \in 1..Len(log.searches) :
         log.searches[k].faults = 2 => log.searches[k].result = SuccessfulSearch(k)
    /\ log.pageFaults = 2 => pc # "extend"

RECURSIVE ResultsUpTo(_)
\* what the searches of queries 1..k returned, one after the other
ResultsUpTo(k) == IF k = 0 THEN <<>> ELSE ResultsUpTo(k - 1) \o log.searches[k].result

\* the flow has not raised, or raised for a reason other than a search
NoAbortBySearch == log.cause # "search"

\* C4: a search whose call fails returns [] and the flow does not raise for
\* it; past the searches every query has been searched and all_playlists
\* holds what the searches returned, in order; a run that completes has fetched
\* every playlist of unique_playlists; a flow that has neither completed nor
\* raised stands at a query or at a playlist it can go on with.
C4_SearchFailureContained ==
    /\ \A k \in 1..Len(log.searches) :
         log.searches[k].failed => log.searches[k].result = <<>>
    /\ NoAbortBySearch
    /\ PastDedup =>
         /\ Len(log.searches) = Len(queries)
         /\ \A k \in 1..Len(queries) :
              ~log.searches[k].failed => log.searches[k].result = SuccessfulSearch(k)
         /\ all_playlists = ResultsUpTo(Len(queries))
    /\ pc = "done" => log.fetched = Len(unique_playlists)
    /\ pc = "search" => qi \in 1..Len(queries)
    /\ pc \in {"page", "extend", "flush"} => pi \in 1..Len(unique_playlists)

\* C4 witness: the first search failed, the second did not, and the run
\* completed with tracks stored.
C4_Witness ==
    /\ pc = "done"
    /\ log.searches[1].failed /\ ~log.searches[2].failed
    /\ unique_playlists # <<>>
    /\ db.tracks # <<>>

\* C5: when a page call fails the task returns the records accepted from the
\* pages fetched before it, and the flow appends what the task returned to its
\* buffer and goes on to the next playlist (or to a save).
C5_PartialResultsKept ==
    /\ []((pc = "extend" /\ log.pageFaults > 0) =>
            ft_tracks = PageLoop(ItemsUpTo(CurrentPlaylist, offset), CurrentPlaylist).value)
    /\ [][pc = "extend" =>
            /\ all_tracks' = all_tracks \o ft_tracks
            /\ pc' \in {"page", "flush", "remaining"}
            /\ pc' = "page" => pi' = pi + 1]_vars

\* C5 witness: a page call failed after pages that yielded records.
C5_Witness ==
    /\ pc = "extend" /\ log.pageFaults > 0
    /\ offset > 0 /\ ft_tracks # <<>>

\* the entries of a search response that are neither null, nor without an
\* id, nor malformed, as the records search_playlists builds of them
ValidPlaylists(items, query) ==
    LET valid == SelectSeq(items, LAMBDA p : ~PlaylistSkipped(p) /\ ~PlaylistRaises(p))
    IN  [k \in 1..Len(valid) |-> PlaylistRecord(valid[k], query)]

\* the items of a playlist that are neither null, nor without an id, nor out
\* of the duration range, nor malformed, as the records the task builds of them
ValidTracks(pid) ==
    LET items == ItemsUpTo(pid, PlaylistSize(world, pid))
        valid == SelectSeq(items, LAMBDA it : ItemOutcome(it) = "accept")
    IN  [k \in 1..Len(valid) |-> TrackRecord(valid[k], pid)]

\* C6: a null or malformed entry is skipped and every valid entry is
\* returned: a search whose call did not fail returns every valid entry of
\* its page, and a fetch none of whose calls failed returns every valid item of
\* the playlist's pages.
C6_MalformedSkipped ==
    /\ \A k \in 1..Len(log.searches) :
         ~log.searches[k].failed =>
            log.searches[k].result
              = ValidPlaylists(SpotifySearch(world, queries[k], 50), queries[k])
    /\ (pc = "extend" /\ log.pageFaults = 0) => ft_tracks = ValidTracks(CurrentPlaylist)

\* C7: after a call of save_to_duckdb, failed or not, the store holds all
\* the rows of the batch or is as it was before the call.
C7_BatchAtomic ==
    log.save.n > 0 => (db = log.save.pre \/ db = log.save.full)

NoDuplicateKey(name, table) ==
    \A j, k \in 1..Len(table) : KeyOf(name, table[j]) = KeyOf(name, table[k]) => j = k

\* the rows of table whose snapshot_date is date
RowsOn(table, date) == SelectSeq(table, LAMBDA r : r.snapshot_date = date)

IsPrefix(a, b) == Len(a) <= Len(b) /\ SubSeq(b, 1, Len(a)) = a

\* this run and the one before it completed without a failed call
SecondCleanRun == pc = "done" /\ log.clean /\ log.prev.run > 0 /\ log.prev.clean

\* C8: tracks holds one row per track id and playlist_tracks one row per
\* (playlist, track, date); a run leaves the association rows of the run
\* before it in place; a run that follows a run on the same catalog, neither
\* with a failed call, leaves tracks with the row count it had, and when it is
\* on a later date it adds, for each pair the earlier run stored under its
\* date, a row under the new date, and no other.
C8_Idempotent ==
    /\ NoDuplicateKey("tracks", db.tracks)
    /\ NoDuplicateKey("playlist_tracks", db.playlist_tracks)
    /\ log.prev.run > 0 => IsPrefix(log.prev.db.playlist_tracks, db.playlist_tracks)
    /\ SecondCleanRun =>
         /\ Len(db.tracks) = Len(log.prev.db.tracks)
         /\ log.prev.date = today => db.playlist_tracks = log.prev.db.playlist_tracks
         /\ log.prev.date < today =>
              /\ Len(RowsOn(db.playlist_tracks, today))
                   = Len(RowsOn(log.prev.db.playlist_tracks, log.prev.date))
              /\ \A k \in 1..Len(log.prev.db.playlist_tracks) :
                   LET old == log.prev.db.playlist_tracks[k]
                   IN  old.snapshot_date = log.prev.date =>
                         \E j \in 1..Len(db.playlist_tracks) :
                           db.playlist_tracks[j] = [old EXCEPT !.snapshot_date = today]

\* C8 witness: a second run on a later date has completed, neither run with
\* a failed call, playlist p1 holding the same track several times.
C8_Witness ==
    /\ SecondCleanRun
    /\ log.prev.date < today
    /\ world.K >= 100
    /\ RowsOn(db.playlist_tracks, today) # <<>>
    /\ RowsOn(db.playlist_tracks, log.prev.date) # <<>>

\* what fetch_playlist_tracks returns for playlist pid when no call fails
Returned(pid) == PageLoop(ItemsUpTo(pid, PlaylistSize(world, pid)), pid).value

RECURSIVE SubmittedUpTo(_)
\* the records of the playlists 1..n of unique_playlists, in the order in
\* which a run without a failed call hands them to save_to_duckdb
SubmittedUpTo(n) ==
    IF n = 0 THEN <<>>
    ELSE SubmittedUpTo(n - 1) \o Returned(unique_playlists[n].playlist_id)

\* the first record of records whose track_id is id
FirstObservation(records, id) ==
    records[CHOOSE j \in 1..Len(records) :
              /\ records[j].track_id = id
              /\ \A i \in 1..(j - 1) : records[i].track_id # id]

\* C9: a step never changes or removes a row of the tracks table, and after
\* a first run without a failed call each row of tracks is the row of the
\* first record with its id that the run handed to save_to_duckdb, whatever
\* the popularity and duration of the later records with that id.
C9_FirstWriteWins ==
    /\ [][IsPrefix(db.tracks, db'.tracks)]_vars
    /\ []((pc = "done" /\ log.clean /\ run = 1) =>
            LET submitted == SubmittedUpTo(Len(unique_playlists))
            IN  \A k \in 1..Len(db.tracks) :
                  db.tracks[k] = TrackRow(FirstObservation(submitted, db.tracks[k].track_id)))

\* C9 witness: track t1 is stored with the popularity of its first
\* observation (51, in p1), after p2 was saved with t1 at popularity 99.
C9_Witness ==
    /\ pc = "done" /\ log.clean
    /\ \E k \in 1..Len(db.tracks) :
         db.tracks[k].track_id = "t1" /\ db.tracks[k].popularity = 51
    /\ \E k \in 1..Len(db.playlist_tracks) :
         db.playlist_tracks[k].playlist_id = "p2" /\ db.playlist_tracks[k].track_id = "t1"

\* the last query (by index) whose search returned playlist id
LastQueryOf(id) ==
    LET hits == {k \in 1..Len(log.searches) :
                   \E j \in 1..Len(log.searches[k].result) :
                     log.searches[k].result[j].playlist_id = id}
    IN  queries[CHOOSE k \in hits : \A j \in hits : j <= k]

\* ids of the playlists the searches returned
FoundIds == {all_playlists[k].playlist_id : k \in 1..Len(all_playlists)}

\* C10: unique_playlists holds no id twice; the category of each of its
\* entries is the last query whose search returned that id; and it holds every
\* id the searches returned when these are at most 200.
C10_DedupLastCategory ==
    PastDedup =>
      /\ \A j, k \in 1..Len(unique_playlists) :
           unique_playlists[j].playlist_id = unique_playlists[k].playlist_id => j = k
      /\ \A k \in 1..Len(unique_playlists) :
           /\ unique_playlists[k].playlist_id \in FoundIds
           /\ unique_playlists[k].category = LastQueryOf(unique_playlists[k].playlist_id)
      /\ Cardinality(FoundIds) <= 200 =>
           FoundIds = {unique_playlists[k].playlist_id : k \in 1..Len(unique_playlists)}

\* C10 witness: p1 was returned for "workout" and for "fitness", and its one
\* entry has the category "fitness".
C10_Witness ==
    /\ PastDedup
    /\ \E j \in 1..Len(log.searches[1].result) : log.searches[1].result[j].playlist_id = "p1"
    /\ \E k \in 1..Len(unique_playlists) :
         unique_playlists[k].playlist_id = "p1" /\ unique_playlists[k].category = "fitness"

\* C11: every call of save_to_duckdb made by the flow is given at most
\* BATCH_SIZE (500) track records.
C11_BatchBounded ==
    log.save.n > 0 => log.save.size <= BATCH_SIZE

\* C12: a failing catalog operation is given up only after MAX_RETRIES (5)
\* attempts in total, and each wait between attempts is RETRY_BACKOFF_FACTOR
\* (2) times the wait before it.
C12_RetriesWithBackoff ==
    /\ \A k \in 1..Len(log.searches) :
         log.searches[k].failed => log.searches[k].attempts = MAX_RETRIES
    /\ (pc = "failed" /\ log.cause \in {"search", "credentials"}) => attempt = MAX_RETRIES
    /\ \A n \in 1..(Len(log.delays) - 1) :
         log.delays[n + 1] = RETRY_BACKOFF_FACTOR * log.delays[n]

\* an item of a playlist that names a track with an id and a duration within
\* [30000, 600000]
Eligible(item) ==
    /\ ~item.itemNone /\ ~item.trackNone
    /\ item.id \notin {NoneS, AbsentS, ""}
    /\ InRange(item.duration)

\* the (playlist, track) pairs the catalog exposes for the playlists the
\* searches returned, the track being eligible
ExposedPairs ==
    UNION { { <<pid, PlaylistItem(world, pid, k).id>> :
                k \in {j \in 1..PlaylistSize(world, pid) :
                         Eligible(PlaylistItem(world, pid, j))} } : pid \in FoundIds }

\* C13: after a first run (on an empty store) without a failed call, the
\* store holds one playlists row per playlist the searches returned, one tracks
\* row per distinct eligible track of these playlists, and one playlist_tracks
\* row per (playlist, eligible track) pair.
C13_StoreMatchesCatalog ==
    (pc = "done" /\ log.clean /\ run = 1) =>
        /\ {db.playlists[k].playlist_id : k \in 1..Len(db.playlists)} = FoundIds
        /\ Len(db.playlists) = Cardinality(FoundIds)
        /\ {db.tracks[k].track_id : k \in 1..Len(db.tracks)}
             = {pr[2] : pr \in ExposedPairs}
        /\ Len(db.tracks) = Cardinality({pr[2] : pr \in ExposedPairs})
        /\ {<<db.playlist_tracks[k].playlist_id, db.playlist_tracks[k].track_id>> :
               k \in 1..Len(db.playlist_tracks)} = ExposedPairs
        /\ Len(db.playlist_tracks) = Cardinality(ExposedPairs)

\* C14: every catalog call (search or page listing) is issued after one
\* delay of API_RATE_LIMIT_DELAY since the catalog call before it (or since the
\* run began), the first page call of a playlist included.
C14_DelayBeforeEveryCall ==
    log.timing.lastWait # NoneI => log.timing.lastWait = API_RATE_LIMIT_DELAY_MS

\* C14 witness: the first page call of the second playlist has been issued,
\* 150 ms after the last page call of the first.
C14_Witness ==
    /\ pi = 2 /\ log.pages = 1
    /\ log.timing.lastWait = API_RATE_LIMIT_DELAY_MS

\* lower-case letters and digits of the alphabet
LowerOrDigit(c) == c \in LowerChars \cup DigitChars

\* C15: what clean_string returns holds only lower-case letters, digits and
\* single spaces, and neither begins nor ends with a space.
C15_OnlyLettersDigitsSpaces ==
    cs_calls > 0 =>
        /\ \A k \in 1..Len(cs_ret) : LowerOrDigit(cs_ret[k]) \/ cs_ret[k] = " "
        /\ \A k \in 1..(Len(cs_ret) - 1) : ~(cs_ret[k] = " " /\ cs_ret[k + 1] = " ")
        /\ cs_ret # <<>> => (cs_ret[1] # " " /\ cs_ret[Len(cs_ret)] # " ")

\* C16: clean_string applied to what it returned returns the same string,
\* and it returns the empty string for None and for the empty string.
C16_CleanIdempotent ==
    /\ [](cs_calls >= 1 /\ cs_arg \in {<<>>, NoneSeq} => cs_ret = <<>>)
    /\ [][cs_calls >= 1 => cs_ret' = cs_ret]_vars

\* C16 witness: clean_string has been applied twice, to an argument that it
\* changes and does not empty.
C16_Witness ==
    /\ cs_calls = 2
    /\ cs_ret # cs_arg /\ cs_ret # <<>>
    /\ \E k \in 1..Len(cs_arg) : cs_arg[k] = "!"

\* the page that the call at the current offset returns
PageAtOffset == SpotifyPlaylistTracks(world, CurrentPlaylist, 100, offset)

\* a step in which a catalog call is issued
CallStep == log'.timing.calls = log.timing.calls + 1

NoSaveFailure == log.cause # "save"

\* C18 amended: in a run with no persistence failure every record a fetch
\* returned is given to save_to_duckdb once, in the order returned: until the
\* run completes the records returned are those saved followed by the buffer,
\* and at completion they are those saved; the buffer is saved and emptied when
\* it holds BATCH_SIZE records or more after a playlist, so it holds fewer
\* while a playlist is fetched and when the loop has ended; the save of the
\* remainder leaves the buffer as it is.
C18_ExactlyOnce ==
    NoSaveFailure =>
        /\ pc \notin {"done", "failed"} => log.returned = log.saved \o all_tracks
        /\ pc = "done" => log.returned = log.saved
        /\ pc \in {"page", "extend", "remaining"} => Len(all_tracks) < BATCH_SIZE
        /\ pc = "flush" => Len(all_tracks) >= BATCH_SIZE
        /\ (pc = "done" /\ all_tracks # <<>>) =>
              /\ Len(all_tracks) = log.save.size
              /\ SubSeq(log.saved, Len(log.saved) - Len(all_tracks) + 1, Len(log.saved))
                   = all_tracks

\* C18 as stated: the same, and the buffer is empty at completion.
C18_ExactlyOnceBufferEmpty ==
    NoSaveFailure =>
        /\ pc \notin {"done", "failed"} => log.returned = log.saved \o all_tracks
        /\ pc = "done" => (log.returned = log.saved /\ all_tracks = <<>>)
        /\ pc \in {"page", "extend", "remaining"} => Len(all_tracks) < BATCH_SIZE
        /\ pc = "flush" => Len(all_tracks) >= BATCH_SIZE

\* C18 witness: a run has completed after a batch save that emptied the
\* buffer and a save of the remainder, which is still in the buffer.
C18_Witness ==
    /\ pc = "done" /\ NoSaveFailure
    /\ log.save.n = 2
    /\ all_tracks # <<>>
    /\ Len(log.saved) > Len(all_tracks)

\* the store before the latest call of save_to_duckdb
StoreBefore == log.save.pre

\* C19: when a call of save_to_duckdb fails the flow raises: the buffer is
\* left as it was given to the call, the run does not complete, nothing more
\* is written until another run begins, and every row that was in the store
\* before the failed call is there unchanged.
C19_FlushFailureEndsRun ==
    /\ [](log.save.fault # "none" =>
            /\ pc = "failed"
            /\ all_tracks # <<>> /\ Len(all_tracks) = log.save.size
            /\ IsPrefix(StoreBefore.playlists, db.playlists)
            /\ IsPrefix(StoreBefore.tracks, db.tracks)
            /\ IsPrefix(StoreBefore.playlist_tracks, db.playlist_tracks))
    /\ [][pc = "failed" => (db' = db /\ (pc' = "failed" \/ run' = run + 1))]_vars

\* ids of the playlists that have a row in the playlists table
StoredPlaylistIds == {db.playlists[k].playlist_id : k \in 1..Len(db.playlists)}

\* C20: the playlists table holds rows of surviving playlists only (those of
\* unique_playlists), hence of at most 200 playlists after one run on an empty
\* store.
C20_CapBoundsStore ==
    /\ StoredPlaylistIds
         \subseteq {unique_playlists[k].playlist_id : k \in 1..Len(unique_playlists)}
    /\ Cardinality(StoredPlaylistIds) <= PLAYLIST_CAP

\* ids of the surviving playlists (those of unique_playlists)
SurvivingIds == {unique_playlists[k].playlist_id : k \in 1..Len(unique_playlists)}

\* C21: when a run in which no call of save_to_duckdb raised has completed,
\* every surviving playlist has a row in the playlists table, also when no
\* track of any playlist was accepted.
C21_SurvivorsStored ==
    (pc = "done" /\ NoSaveFailure) => SurvivingIds \subseteq StoredPlaylistIds

\* ids of the tracks that have a row in the tracks table
StoredTrackIds == {db.tracks[k].track_id : k \in 1..Len(db.tracks)}

\* C22: in every state of the store, the states a failed call of
\* save_to_duckdb leaves behind included, every playlist_tracks row has a
\* playlists row with its playlist_id and a tracks row with its track_id.
C22_ReferentialIntegrity ==
    \A k \in 1..Len(db.playlist_tracks) :
       /\ db.playlist_tracks[k].playlist_id \in StoredPlaylistIds
       /\ db.playlist_tracks[k].track_id \in StoredTrackIds

\* C22 witness: a call of save_to_duckdb raised in its last statement after
\* writing some of the batch's association rows, so that the store is neither
\* as it was before the call nor as the whole batch would have left it.
C22_Witness ==
    /\ log.save.fault = "playlist_tracks"
    /\ Len(db.playlist_tracks) > Len(log.save.pre.playlist_tracks)
    /\ db # log.save.full

====
